---- MODULE Spec2Model ----
(***************************************************************************)
(* A model of alinio: the alignment functions of align.rs (center, left,   *)
(* right, between, around) and the table formatter of table.rs (Table, its *)
(* setters, render and render_partial).                                    *)
(*                                                                         *)
(* A string is a sequence of characters; a character is a one-character    *)
(* TLA+ string.  "W" stands for a double-width glyph, every other          *)
(* character is one terminal column wide, so that the display width of a   *)
(* string differs from its number of characters.                           *)
(***************************************************************************)
EXTENDS Integers, Sequences, FiniteSets, TLC

VARIABLES self, frame, call

vars == <<self, frame, call>>

----------------------------------------------------------------------------
(* Bounds of the model.                                                    *)

MaxRows == 2
MaxCols == 3
MaxSpace == 7
MaxPri == 1
MaxPriLen == 3
MaxFrags == 3

(* The cells a table is built from and the fragments handed to align.rs.   *)
Cells == {<<"a">>, <<"W", "b">>}
Texts == {<<>>, <<"a">>, <<"W">>, <<"a", "b">>}

Rows == UNION {[1..n -> Cells] : n \in 0..MaxCols}
Tables == UNION {[1..n -> Rows] : n \in 0..MaxRows}
Spaces == 0..MaxSpace
Offsets == 0..(MaxRows + 1)
PriorityLists == UNION {[1..n -> 0..MaxPri] : n \in 0..MaxPriLen}
Aligns == {"Left", "Center", "Right"}
Fragments == UNION {[1..n -> Texts] : n \in 0..MaxFrags}

----------------------------------------------------------------------------
(* Option<T>: None and Some(v).                                            *)

None == [ok |-> FALSE, val |-> <<>>]
Some(v) == [ok |-> TRUE, val |-> v]

(* Sequence helpers standing for the std library calls the code makes.     *)

RECURSIVE Sum(_)
Sum(s) == IF s = <<>> THEN 0 ELSE Head(s) + Sum(Tail(s))

RECURSIVE Concat(_)
Concat(ss) == IF ss = <<>> THEN <<>> ELSE Head(ss) \o Concat(Tail(ss))

SatSub(a, b) == IF a > b THEN a - b ELSE 0

(* " ".repeat(n) *)
Repeat(n) == [i \in 1..n |-> " "]

(* Vec::remove(i), i counted from 0; the caller checks i < len.            *)
Remove(s, i) == SubSeq(s, 1, i) \o SubSeq(s, i + 2, Len(s))

(* UnicodeWidthStr::width: the display width of a string.                  *)
CharWidth(c) == IF c = "W" THEN 2 ELSE 1
Width(s) == Sum([i \in 1..Len(s) |-> CharWidth(s[i])])

----------------------------------------------------------------------------
(* align.rs                                                                *)

(* center with the odd blank on the left: what C8 must tell from center.    *)
center_left_heavy(txt, space) ==
    LET len == Width(txt) IN
    IF len > space THEN None
    ELSE LET left_over == space - len
             each == (left_over + 1) \div 2
         IN Some(Repeat(each) \o txt \o Repeat(left_over - each))

center(txt, space) ==
    LET len == Width(txt) IN
    IF len > space THEN None
    ELSE LET left_over == space - len
             each == left_over \div 2
         IN Some(Repeat(each) \o txt \o Repeat(left_over - each))

(* left measuring characters instead of columns: what C9 must tell from     *)
(* left.                                                                   *)
left_by_chars(txt, space) ==
    LET len == Len(txt) IN
    IF len > space THEN None
    ELSE LET left_over == space - len
         IN Some(txt \o Repeat(left_over))

left(txt, space) ==
    LET len == Width(txt) IN
    IF len > space THEN None
    ELSE LET left_over == space - len
         IN Some(txt \o Repeat(left_over))

right(txt, space) ==
    LET len == Width(txt) IN
    IF len > space THEN None
    ELSE LET left_over == space - len
         IN Some(Repeat(left_over) \o txt)

(* The loop of between without the remainder: what C10 must tell from      *)
(* between_loop.                                                           *)
RECURSIVE between_loop_no_remainder(_, _, _, _, _, _)
between_loop_no_remainder(txt, pad_places, each, remainder, i, res) ==
    IF i > pad_places THEN res
    ELSE between_loop_no_remainder(txt, pad_places, each, remainder, i + 1,
                                   res \o txt[i] \o Repeat(each))

(* The for loop of between: iteration i (from 1) over the first pad_places *)
(* fragments, with the remainder still to hand out.                        *)
RECURSIVE between_loop(_, _, _, _, _, _)
between_loop(txt, pad_places, each, remainder, i, res) ==
    IF i > pad_places THEN res
    ELSE between_loop(txt, pad_places, each,
                      IF remainder > 0 THEN remainder - 1 ELSE remainder,
                      i + 1,
                      res \o txt[i] \o Repeat(each)
                          \o (IF remainder > 0 THEN <<" ">> ELSE <<>>))

(* between that centres a single fragment, as around does: what C12 must   *)
(* tell from between.                                                      *)
between_single_centered(txt, space) ==
    LET len == Sum([i \in 1..Len(txt) |-> Width(txt[i])]) IN
    IF len > space THEN None
    ELSE IF Len(txt) = 0 THEN Some(Repeat(space))
    ELSE IF Len(txt) = 1 THEN center(txt[1], space)
    ELSE LET left_over == space - len
             pad_places == SatSub(Len(txt), 1)
             each == left_over \div pad_places
             remainder == left_over - each * pad_places
         IN Some(between_loop(txt, pad_places, each, remainder, 1, <<>>)
                 \o txt[Len(txt)])

between(txt, space) ==
    LET len == Sum([i \in 1..Len(txt) |-> Width(txt[i])]) IN
    IF len > space THEN None
    ELSE IF Len(txt) = 0 THEN Some(Repeat(space))
    ELSE IF Len(txt) = 1 THEN left(txt[1], space)
    ELSE LET left_over == space - len
             pad_places == SatSub(Len(txt), 1)
             each == left_over \div pad_places
             remainder == left_over - each * pad_places
         IN Some(between_loop(txt, pad_places, each, remainder, 1, <<>>)
                 \o txt[Len(txt)])

(* The loop of around without the remainder: what C11 must tell from       *)
(* around_loop.                                                            *)
RECURSIVE around_loop_no_remainder(_, _, _, _, _, _)
around_loop_no_remainder(txt, pad_places, each, remainder, t, res) ==
    IF t >= pad_places THEN res
    ELSE around_loop_no_remainder(txt, pad_places, each, remainder, t + 1,
                                  res \o Repeat(each)
                                      \o (IF t + 1 <= Len(txt) THEN txt[t + 1] ELSE <<>>))

(* The for loop of around: t runs over 0..pad_places-1.                    *)
RECURSIVE around_loop(_, _, _, _, _, _)
around_loop(txt, pad_places, each, remainder, t, res) ==
    IF t >= pad_places THEN res
    ELSE around_loop(txt, pad_places, each,
                     IF remainder > 0 THEN remainder - 1 ELSE remainder,
                     t + 1,
                     res \o Repeat(each)
                         \o (IF remainder > 0 THEN <<" ">> ELSE <<>>)
                         \o (IF t + 1 <= Len(txt) THEN txt[t + 1] ELSE <<>>))

around(txt, space) ==
    LET len == Sum([i \in 1..Len(txt) |-> Width(txt[i])]) IN
    IF len > space THEN None
    ELSE IF Len(txt) = 0 THEN Some(Repeat(space))
    ELSE IF Len(txt) = 1 THEN center(txt[1], space)
    ELSE LET left_over == space - len
             pad_places == Len(txt) + 1
             each == left_over \div pad_places
             remainder == left_over - each * pad_places
         IN Some(around_loop(txt, pad_places, each, remainder, 0, <<>>))

----------------------------------------------------------------------------
(* table.rs                                                                *)

Max(S) == CHOOSE m \in S : \A x \in S : x <= m
Min(S) == CHOOSE m \in S : \A x \in S : m <= x

find_longest(column) ==
    IF column = <<>> THEN 0
    ELSE Max({Width(column[i]) : i \in 1..Len(column)})

(* Table::new: the rows as given, the space; every other field default.    *)
new(data, space) ==
    [data |-> data, priorities |-> <<>>, align |-> "Left",
     space |-> space, surround |-> FALSE]

(* The activation record of render_partial when no render is running.      *)
Idle ==
    [pc |-> "idle", offset |-> 0, data |-> <<>>, limits |-> <<>>,
     pri |-> <<>>, pad_places |-> 0, column_count |-> 0, result |-> None]

Return(off, res) == [Idle EXCEPT !.pc = "done", !.offset = off, !.result = res]

(* render_partial that forgets to skip the first offset rows: what C1 must *)
(* tell from render_partial_enter.                                         *)
render_partial_enter_no_skip(t, offset) ==
    IF SatSub(Len(t.data), offset) = 0 THEN Return(offset, Some(<<>>))
    ELSE LET data == t.data
             ncols == Len(data[1])
         IN IF \E r \in 1..Len(data) : Len(data[r]) < ncols
            THEN Return(offset, None)
            ELSE LET columns == [c \in 1..ncols |->
                                   [r \in 1..Len(data) |-> data[r][c]]]
                     limits == [c \in 1..ncols |-> find_longest(columns[c])]
                 IN [pc |-> "loop", offset |-> offset, data |-> data,
                     limits |-> limits, pri |-> t.priorities,
                     pad_places |-> IF t.surround THEN ncols + 1
                                    ELSE SatSub(ncols, 1),
                     column_count |-> SatSub(ncols, 1),
                     result |-> None]

(* render_partial that measures the columns over all rows, the skipped     *)
(* ones included: what C14 must tell from render_partial_enter.            *)
render_partial_enter_all_rows(t, offset) ==
    IF SatSub(Len(t.data), offset) = 0 THEN Return(offset, Some(<<>>))
    ELSE LET data == SubSeq(t.data, offset + 1, Len(t.data))
             ncols == Len(data[1])
         IN IF \E r \in 1..Len(t.data) : Len(t.data[r]) < ncols
            THEN Return(offset, None)
            ELSE LET columns == [c \in 1..ncols |->
                                   [r \in 1..Len(t.data) |-> t.data[r][c]]]
                     limits == [c \in 1..ncols |-> find_longest(columns[c])]
                 IN [pc |-> "loop", offset |-> offset, data |-> data,
                     limits |-> limits, pri |-> t.priorities,
                     pad_places |-> IF t.surround THEN ncols + 1
                                    ELSE SatSub(ncols, 1),
                     column_count |-> SatSub(ncols, 1),
                     result |-> None]

(* render_partial up to the head of the while loop (lines 130-159).        *)
render_partial_enter(t, offset) ==
    IF SatSub(Len(t.data), offset) = 0 THEN Return(offset, Some(<<>>))
    ELSE LET data == SubSeq(t.data, offset + 1, Len(t.data))
             ncols == Len(data[1])
         IN IF \E r \in 1..Len(data) : Len(data[r]) < ncols
            THEN Return(offset, None)
            ELSE LET columns == [c \in 1..ncols |->
                                   [r \in 1..Len(data) |-> data[r][c]]]
                     limits == [c \in 1..ncols |-> find_longest(columns[c])]
                 IN [pc |-> "loop", offset |-> offset, data |-> data,
                     limits |-> limits, pri |-> t.priorities,
                     pad_places |-> IF t.surround THEN ncols + 1
                                    ELSE SatSub(ncols, 1),
                     column_count |-> SatSub(ncols, 1),
                     result |-> None]

(* The loop condition written as a wrapping subtraction, sum > space - pad: *)
(* what C6 must tell from over_budget.                                     *)
over_budget_wrapping(t, f) ==
    IF t.space >= f.pad_places THEN Sum(f.limits) > t.space - f.pad_places
    ELSE FALSE

(* The loop condition without the padding slots: what C15 must tell from   *)
(* over_budget.                                                            *)
over_budget_no_padding(t, f) == Sum(f.limits) > t.space

(* The condition of the while loop (line 160).                             *)
over_budget(t, f) == Sum(f.limits) + f.pad_places > t.space

(* The last position of x instead of the first: what C4 must tell from     *)
(* position.                                                               *)
position_last(pri, x) == Max({i \in 1..Len(pri) : pri[i] = x}) - 1

(* Which column to remove, counted from 0 (lines 162-163).                 *)
position(pri, x) == Min({i \in 1..Len(pri) : pri[i] = x}) - 1

rm_index(f) ==
    IF f.pri = <<>> THEN f.column_count
    ELSE position(f.pri, Min({f.pri[i] : i \in 1..Len(f.pri)}))

(* One iteration of the while loop (lines 161-176). Vec::remove panics on  *)
(* an index that is not in the vector.                                     *)
evict_step(f) ==
    LET rm == rm_index(f) IN
    IF \/ \E r \in 1..Len(f.data) : rm >= Len(f.data[r])
       \/ rm >= Len(f.limits)
    THEN [f EXCEPT !.pc = "fault"]
    ELSE [f EXCEPT !.data = [r \in 1..Len(f.data) |-> Remove(f.data[r], rm)],
                   !.limits = Remove(f.limits, rm),
                   !.pri = IF f.pri # <<>> THEN Remove(f.pri, rm) ELSE f.pri,
                   !.pad_places = SatSub(f.pad_places, 1),
                   !.column_count = SatSub(f.column_count, 1)]

(* One cell aligned to its column's width (lines 184-188).                 *)
align_cell(t, column, limit) ==
    CASE t.align = "Left" -> left(column, limit)
      [] t.align = "Right" -> right(column, limit)
      [] t.align = "Center" -> center(column, limit)

(* The cells of one row that zip pairs with a width (line 182).            *)
zipped(row, limits) == IF Len(row) < Len(limits) THEN Len(row) ELSE Len(limits)

(* One row joined to a line (lines 191-198).                               *)
format_row(t, row, limits) ==
    LET parts == [c \in 1..zipped(row, limits) |->
                    align_cell(t, row[c], limits[c]).val]
    IN IF t.surround THEN around(parts, t.space) ELSE between(parts, t.space)

(* The code after the loop (lines 179-200): unwrap panics on a cell that   *)
(* does not fit its column, and ? returns None on a row that does not fit. *)
format_rows(t, f) ==
    LET lines == [r \in 1..Len(f.data) |-> format_row(t, f.data[r], f.limits)]
    IN IF \E r \in 1..Len(f.data) : \E c \in 1..zipped(f.data[r], f.limits) :
             ~align_cell(t, f.data[r][c], f.limits[c]).ok
       THEN [f EXCEPT !.pc = "fault"]
       ELSE IF \E r \in 1..Len(f.data) : ~lines[r].ok
       THEN [f EXCEPT !.pc = "done", !.result = None]
       ELSE [f EXCEPT !.pc = "done",
                      !.result = Some([r \in 1..Len(f.data) |-> lines[r].val])]

(* render_partial run from the head of the loop to its end.                *)
RECURSIVE run_loop(_, _)
run_loop(t, f) ==
    IF f.pc # "loop" THEN f
    ELSE IF over_budget(t, f) THEN run_loop(t, evict_step(f))
    ELSE format_rows(t, f)

(* What render_partial(offset) gives: kind is "lines", "nofit" or "fault". *)
outcome(f) ==
    [kind |-> IF f.pc = "fault" THEN "fault"
              ELSE IF f.result.ok THEN "lines" ELSE "nofit",
     lines |-> IF f.pc = "fault" THEN <<>> ELSE f.result.val,
     columns |-> Len(f.limits)]

render_partial_of(t, offset) == outcome(run_loop(t, render_partial_enter(t, offset)))

----------------------------------------------------------------------------
(* The table as a state machine: the setters, and render_partial one loop  *)
(* iteration at a time.                                                    *)

NoCall == [op |-> "none", txt |-> <<>>, space |-> 0, ret |-> None]

Init ==
    /\ self \in {new(data, space) : data \in Tables, space \in Spaces}
    /\ frame = Idle
    /\ call = NoCall

set_priorities ==
    /\ frame.pc = "idle"
    /\ \E priorities \in PriorityLists : self' = [self EXCEPT !.priorities = priorities]
    /\ UNCHANGED <<frame, call>>

set_alignment ==
    /\ frame.pc = "idle"
    /\ \E align \in Aligns : self' = [self EXCEPT !.align = align]
    /\ UNCHANGED <<frame, call>>

set_surround ==
    /\ frame.pc = "idle"
    /\ \E surround \in BOOLEAN : self' = [self EXCEPT !.surround = surround]
    /\ UNCHANGED <<frame, call>>

set_space ==
    /\ frame.pc = "idle"
    /\ \E space \in Spaces : self' = [self EXCEPT !.space = space]
    /\ UNCHANGED <<frame, call>>

render ==
    /\ frame.pc = "idle"
    /\ frame' = render_partial_enter(self, 0)
    /\ UNCHANGED <<self, call>>

render_partial ==
    /\ frame.pc = "idle"
    /\ \E offset \in Offsets : frame' = render_partial_enter(self, offset)
    /\ UNCHANGED <<self, call>>

(* The loop body working on the table's own rows instead of a copy: what   *)
(* C13 must tell from evict.                                               *)
evict_in_place ==
    /\ frame.pc = "loop"
    /\ over_budget(self, frame)
    /\ frame' = evict_step(frame)
    /\ self' = [self EXCEPT !.data = SubSeq(self.data, 1, frame.offset) \o frame'.data]
    /\ UNCHANGED call

evict ==
    /\ frame.pc = "loop"
    /\ over_budget(self, frame)
    /\ frame' = evict_step(frame)
    /\ UNCHANGED <<self, call>>

format ==
    /\ frame.pc = "loop"
    /\ ~over_budget(self, frame)
    /\ frame' = format_rows(self, frame)
    /\ UNCHANGED <<self, call>>

return ==
    /\ frame.pc = "done"
    /\ frame' = Idle
    /\ UNCHANGED <<self, call>>

Next ==
    \/ set_priorities
    \/ set_alignment
    \/ set_surround
    \/ set_space
    \/ render
    \/ render_partial
    \/ evict
    \/ format
    \/ return

Spec == Init /\ [][Next]_vars

----------------------------------------------------------------------------
(* The alignment functions called on their own: call holds the call being  *)
(* made and what it returns. txt is the list of fragments; left, right and     *)
(* center take one.                                                        *)

AlignInit ==
    /\ self = new(<<>>, 0)
    /\ frame = Idle
    /\ call = NoCall

call_center ==
    /\ call.op = "none"
    /\ \E txt \in Texts, space \in Spaces :
         call' = [op |-> "center", txt |-> <<txt>>, space |-> space,
                  ret |-> center(txt, space)]
    /\ UNCHANGED <<self, frame>>

call_left ==
    /\ call.op = "none"
    /\ \E txt \in Texts, space \in Spaces :
         call' = [op |-> "left", txt |-> <<txt>>, space |-> space,
                  ret |-> left(txt, space)]
    /\ UNCHANGED <<self, frame>>

call_right ==
    /\ call.op = "none"
    /\ \E txt \in Texts, space \in Spaces :
         call' = [op |-> "right", txt |-> <<txt>>, space |-> space,
                  ret |-> right(txt, space)]
    /\ UNCHANGED <<self, frame>>

call_between ==
    /\ call.op = "none"
    /\ \E txt \in Fragments, space \in Spaces :
         call' = [op |-> "between", txt |-> txt, space |-> space,
                  ret |-> between(txt, space)]
    /\ UNCHANGED <<self, frame>>

call_around ==
    /\ call.op = "none"
    /\ \E txt \in Fragments, space \in Spaces :
         call' = [op |-> "around", txt |-> txt, space |-> space,
                  ret |-> around(txt, space)]
    /\ UNCHANGED <<self, frame>>

(* The caller takes the returned value. *)
call_return ==
    /\ call.op # "none"
    /\ call' = NoCall
    /\ UNCHANGED <<self, frame>>

AlignNext ==
    \/ call_center
    \/ call_left
    \/ call_right
    \/ call_between
    \/ call_around
    \/ call_return

AlignSpec == AlignInit /\ [][AlignNext]_vars

----------------------------------------------------------------------------
(* Vocabulary of the properties.                                           *)

IsBlank(s) == \A i \in 1..Len(s) : s[i] = " "

(* s is t with exactly `before` blanks in front of it and `after` behind.  *)
Padded(s, before, t, after) ==
    /\ Len(s) = before + Len(t) + after
    /\ \A i \in 1..before : s[i] = " "
    /\ \A i \in 1..Len(t) : s[before + i] = t[i]
    /\ \A i \in 1..after : s[before + Len(t) + i] = " "

(* s without its blanks. *)
Strip(s) == SelectSeq(s, LAMBDA c : c # " ")

TotalWidth(txt) == Sum([i \in 1..Len(txt) |-> Width(txt[i])])

----------------------------------------------------------------------------
(* C8: for every text and every space >= width(text), left, right and      *)
(* center return the text with only blanks added and display width exactly *)
(* space: left puts all space - width blanks after the text, right puts    *)
(* them all before it, center puts floor((space - width)/2) before it and  *)
(* the rest after it.                                                      *)
C8_PadToSpace ==
    (call.op \in {"left", "right", "center"} /\ Width(call.txt[1]) <= call.space)
    => LET t == call.txt[1]
           k == call.space - Width(t)
       IN /\ call.ret.ok
          /\ Width(call.ret.val) = call.space
          /\ call.op = "left" => Padded(call.ret.val, 0, t, k)
          /\ call.op = "right" => Padded(call.ret.val, k, t, 0)
          /\ call.op = "center" => Padded(call.ret.val, k \div 2, t, k - (k \div 2))

(* center was called with an odd leftover, on a text with a wide glyph.    *)
C8_Witness ==
    /\ call.op = "center"
    /\ call.txt = << <<"W">> >>
    /\ call.space = 5
    /\ call.ret = Some(<<" ", "W", " ", " ">>)

(* C9: each of left, right, center, between and around returns no-fit      *)
(* exactly when the total display width of its fragments exceeds space,    *)
(* for any number of fragments; what it returns otherwise holds all the    *)
(* fragments, whole and in order.                                          *)
C9_NoFitIffTooWide ==
    call.op # "none"
    => /\ call.ret.ok <=> TotalWidth(call.txt) <= call.space
       /\ call.ret.ok => Strip(call.ret.val) = Concat(call.txt)

(* between refused two fragments one column too wide for the space.        *)
C9_Witness ==
    /\ call.op = "between"
    /\ call.txt = << <<"W">>, <<"a", "b">> >>
    /\ call.space = 3
    /\ ~call.ret.ok

(* The width of gap i of n fragments laid out by between in space.         *)
BetweenGap(txt, space, i) ==
    LET leftover == space - TotalWidth(txt)
        gaps == Len(txt) - 1
    IN (leftover \div gaps) + (IF i <= leftover % gaps THEN 1 ELSE 0)

(* s starts at position p with fragment i of txt, followed by gap i, and   *)
(* so on to the last fragment, which ends s.                               *)
RECURSIVE LaidOutFrom(_, _, _, _, _)
LaidOutFrom(s, p, txt, space, i) ==
    LET frag == txt[i] IN
    /\ p + Len(frag) - 1 <= Len(s)
    /\ SubSeq(s, p, p + Len(frag) - 1) = frag
    /\ IF i = Len(txt) THEN p + Len(frag) - 1 = Len(s)
       ELSE LET g == BetweenGap(txt, space, i)
                q == p + Len(frag)
            IN /\ q + g - 1 <= Len(s)
               /\ IsBlank(SubSeq(s, q, q + g - 1))
               /\ LaidOutFrom(s, q + g, txt, space, i + 1)

(* C10: for two or more fragments whose total width is at most space,      *)
(* between returns the fragments in order, nothing before the first or     *)
(* after the last, display width exactly space, and count - 1 gaps of      *)
(* floor(leftover/(count-1)) blanks each, the first leftover mod (count-1) *)
(* gaps one blank wider.                                                   *)
C10_BetweenGaps ==
    (call.op = "between" /\ Len(call.txt) >= 2 /\ TotalWidth(call.txt) <= call.space)
    => /\ call.ret.ok
       /\ Width(call.ret.val) = call.space
       /\ LaidOutFrom(call.ret.val, 1, call.txt, call.space, 1)

(* between laid out three fragments with a remainder of one blank.         *)
C10_Witness ==
    /\ call.op = "between"
    /\ call.txt = << <<"a">>, <<"W">>, <<"a">> >>
    /\ call.space = 7
    /\ call.ret = Some(<<"a", " ", " ", "W", " ", "a">>)

----------------------------------------------------------------------------
(* Vocabulary of the properties of the table.                              *)

(* s without its element k (counted from 1).                               *)
Without(s, k) == [i \in 1..(Len(s) - 1) |-> IF i < k THEN s[i] ELSE s[i + 1]]

(* The rows render_partial(frame.offset) works on.                         *)
Rendered == SubSeq(self.data, frame.offset + 1, Len(self.data))

(* render_partial has ended with a list of lines.                          *)
ReturnedLines == frame.pc = "done" /\ frame.result.ok

(* The line shows cells of the row, in the row's order, and nothing else.  *)
ShowsRow(line, row) ==
    \E S \in SUBSET (1..Len(row)) :
        Strip(line) = Concat(SelectSeq([c \in 1..Len(row) |->
                                          IF c \in S THEN row[c] ELSE <<>>],
                                       LAMBDA cell : cell # <<>>))

(* The loop is about to run its body once more.                            *)
AboutToEvict == frame.pc = "loop" /\ over_budget(self, frame)

(* Widths, priorities and cells of the surviving columns line up.          *)
Matched(f) ==
    /\ Len(f.pri) = Len(f.limits)
    /\ \A r \in 1..Len(f.data) : Len(f.data[r]) >= Len(f.limits)
    /\ \A c \in 1..Len(f.limits) :
         /\ \A r \in 1..Len(f.data) : Width(f.data[r][c]) <= f.limits[c]
         /\ \E r \in 1..Len(f.data) : Width(f.data[r][c]) = f.limits[c]

----------------------------------------------------------------------------
(* C1: when render_partial(offset) returns lines for a table with          *)
(* offset < row count, there are exactly (row count - offset) lines, line  *)
(* i shows row offset + i, and every line is exactly `space` columns wide. *)
C1_OneLinePerRow ==
    (ReturnedLines /\ frame.offset < Len(self.data))
    => /\ Len(frame.result.val) = Len(self.data) - frame.offset
       /\ \A i \in 1..Len(frame.result.val) :
            /\ Width(frame.result.val[i]) = self.space
            /\ i <= Len(Rendered) /\ ShowsRow(frame.result.val[i], Rendered[i])

(* The second row of a table rendered alone, centred, with surround.       *)
C1_Witness ==
    /\ ReturnedLines
    /\ frame.offset = 1
    /\ self.data = << << <<"W", "b">> >>, << <<"a">> >> >>
    /\ self.align = "Center"
    /\ self.surround
    /\ self.space = 6
    /\ frame.result.val = << <<" ", " ", "a", " ", " ", " ">> >>

(* C2: render_partial(offset) returns no-fit whenever the rows from offset *)
(* on do not all have the same number of cells, a later row having fewer   *)
(* or more cells than the first; such a table is never rendered to lines.  *)
C2_RaggedIsNoFit ==
    (frame.pc = "done" /\ \E r \in 1..Len(Rendered) : Len(Rendered[r]) # Len(Rendered[1]))
    => ~frame.result.ok

(* C3: render_partial always ends with lines or no-fit, never in a fault.  *)
C3_NeverFaults == frame.pc # "fault"

(* The column the claim C4 names: the lowest index among the minima.       *)
LowestMinimum(pri) ==
    CHOOSE k \in 1..Len(pri) :
        /\ \A j \in 1..Len(pri) : pri[k] <= pri[j]
        /\ \A j \in 1..(k - 1) : pri[j] > pri[k]

(* C4: with one priority per column, each iteration of the eviction loop   *)
(* removes the surviving column of minimal priority, the lowest index      *)
(* among equals, from every row, from the widths and from the priorities,  *)
(* so that cells, widths and priorities stay matched by position.          *)
C4_EvictsLowestPriority ==
    [][(/\ AboutToEvict
        /\ Len(self.priorities) = Len(Rendered[1])
        /\ frame.limits # <<>>)
       => /\ Len(frame.pri) = Len(frame.limits)
          /\ LET k == LowestMinimum(frame.pri) IN
             /\ frame'.pc = "loop"
             /\ frame'.pri = Without(frame.pri, k)
             /\ frame'.limits = Without(frame.limits, k)
             /\ frame'.data = [r \in 1..Len(frame.data) |-> Without(frame.data[r], k)]
             /\ Matched(frame')]_vars

(* Of two columns of priority 0 the left one went, the right one stays.    *)
C4_Witness ==
    /\ frame.pc = "loop"
    /\ self.priorities = <<1, 0, 0>>
    /\ self.data = << << <<"a">>, <<"W", "b">>, <<"a">> >> >>
    /\ frame.pri = <<1, 0>>
    /\ frame.limits = <<1, 1>>

(* The priority the claim C5 gives column c: 0 where none is assigned.     *)
Effective(f, c) == IF c <= Len(f.pri) THEN f.pri[c] ELSE 0

(* C5: with fewer priorities than columns, the columns without one count   *)
(* as priority 0: the loop evicts the lowest index among the columns of    *)
(* minimal priority, so no column of an assigned priority > 0 goes while a *)
(* column without a priority survives.                                     *)
C5_UnassignedCountAsZero ==
    [][(/\ AboutToEvict
        /\ Len(frame.pri) < Len(frame.limits)
        /\ \A r \in 1..Len(frame.data) : Len(frame.data[r]) = Len(frame.limits))
       => LET n == Len(frame.limits)
              k == CHOOSE c \in 1..n :
                     /\ \A j \in 1..n : Effective(frame, c) <= Effective(frame, j)
                     /\ \A j \in 1..(c - 1) : Effective(frame, j) > Effective(frame, c)
          IN /\ Effective(frame, k) = 0
             /\ frame'.pc = "loop"
             /\ frame'.limits = Without(frame.limits, k)
             /\ frame'.data = [r \in 1..Len(frame.data) |-> Without(frame.data[r], k)]]_vars

(* C6: for fixed rows, priorities, alignment and surround flag, a render   *)
(* that succeeds at space s2 keeps at least as many columns as a render    *)
(* that succeeds at any s1 <= s2.                                          *)
C6_MonotonicInSpace ==
    ReturnedLines
    => \A s1 \in 0..self.space :
         LET smaller == render_partial_of([self EXCEPT !.space = s1], frame.offset)
         IN smaller.kind = "lines" => smaller.columns <= Len(frame.limits)

(* Two columns survive at this space and only one at a smaller space.      *)
C6_Witness ==
    /\ ReturnedLines
    /\ Len(Rendered) > 0
    /\ Len(Rendered[1]) = 3
    /\ Len(frame.limits) = 2
    /\ \E s1 \in 0..self.space :
         LET smaller == render_partial_of([self EXCEPT !.space = s1], frame.offset)
         IN smaller.kind = "lines" /\ smaller.columns = 1

(* C7: when every column has been evicted and the padding slots still      *)
(* required exceed space, render_partial returns no-fit: no lines and no   *)
(* fault.                                                                  *)
C7_PaddingAloneIsNoFit ==
    (/\ frame.pc \in {"done", "fault"}
     /\ frame.limits = <<>>
     /\ frame.pad_places > self.space)
    => (frame.pc = "done" /\ ~frame.result.ok)

----------------------------------------------------------------------------
(* Vocabulary of the properties of around.                                 *)

Blanks(n) == [i \in 1..n |-> " "]

(* The fragments of txt with gaps[i] blanks before fragment i and the last *)
(* of the gaps after the last fragment.                                    *)
RECURSIVE Layout(_, _)
Layout(txt, gaps) ==
    Blanks(Head(gaps))
    \o (IF txt = <<>> THEN <<>> ELSE Head(txt) \o Layout(Tail(txt), Tail(gaps)))

(* n gaps of e blanks, the first m of them one blank wider.                *)
LeftBiased(n, e, m) == [i \in 1..n |-> IF i <= m THEN e + 1 ELSE e]

(* n gaps of e blanks, the last m of them one blank wider.                 *)
RightBiased(n, e, m) == [i \in 1..n |-> IF i > n - m THEN e + 1 ELSE e]

AroundFits == call.op = "around" /\ Len(call.txt) >= 1 /\ TotalWidth(call.txt) <= call.space

(* C11 as stated: for every non-empty fragment list (one fragment or more) *)
(* whose total width is at most space, around returns a string of display  *)
(* width space whose count + 1 gaps differ by at most one blank, every     *)
(* larger gap to the left of every smaller one.                            *)
C11_AroundLeftBias ==
    AroundFits
    => /\ call.ret.ok
       /\ Width(call.ret.val) = call.space
       /\ \E e \in 0..call.space, m \in 0..Len(call.txt) :
            call.ret.val = Layout(call.txt, LeftBiased(Len(call.txt) + 1, e, m))

(* C11 as amended: the same for two or more fragments; for one fragment    *)
(* the two gaps differ by at most one blank and the wider one, if any, is  *)
(* the right one.                                                          *)
C11_AroundGaps ==
    AroundFits
    => /\ call.ret.ok
       /\ Width(call.ret.val) = call.space
       /\ Len(call.txt) >= 2 =>
            \E e \in 0..call.space, m \in 0..Len(call.txt) :
                call.ret.val = Layout(call.txt, LeftBiased(Len(call.txt) + 1, e, m))
       /\ Len(call.txt) = 1 =>
            \E e \in 0..call.space, m \in 0..1 :
                call.ret.val = Layout(call.txt, RightBiased(2, e, m))

(* around laid out two fragments with a remainder of two blanks.           *)
C11_Witness ==
    /\ call.op = "around"
    /\ call.txt = << <<"a">>, <<"W">> >>
    /\ call.space = 5
    /\ call.ret = Some(<<" ", "a", " ", "W">>)

(* C12: for every space, between([], space) and around([], space) are      *)
(* space blanks; for every fragment x, between([x], space) is              *)
(* left(x, space) and around([x], space) is center(x, space), no-fit       *)
(* included.                                                               *)
C12_DegenerateCounts ==
    /\ (call.op \in {"between", "around"} /\ call.txt = <<>>)
       => /\ call.ret.ok
          /\ Len(call.ret.val) = call.space
          /\ IsBlank(call.ret.val)
    /\ (call.op = "between" /\ Len(call.txt) = 1)
       => call.ret = left(call.txt[1], call.space)
    /\ (call.op = "around" /\ Len(call.txt) = 1)
       => call.ret = center(call.txt[1], call.space)

(* between was handed one fragment with room to spare.                     *)
C12_Witness ==
    /\ call.op = "between"
    /\ call.txt = << <<"W">> >>
    /\ call.space = 4
    /\ call.ret = Some(<<"W", " ", " ">>)

----------------------------------------------------------------------------
(* The fields of the table that differ between two values of it.           *)
Changed(t, u) ==
    {f \in {"data", "priorities", "align", "space", "surround"} : t[f] # u[f]}

(* render_partial has ended, with a value or in a fault.                   *)
Ended == frame.pc \in {"done", "fault"}

(* C13: render and render_partial leave rows, space, priorities, alignment *)
(* and surround flag unchanged; a setter replaces one configuration field  *)
(* and nothing else; so what a render gives is a function of the rows and  *)
(* of the configuration last set, and two renders with no setter between   *)
(* them give the same.                                                     *)
C13_RenderReadsOnly ==
    [][/\ frame' # frame => self' = self
       /\ self' # self => /\ frame' = frame
                          /\ frame.pc = "idle"
                          /\ Cardinality(Changed(self, self')) = 1
                          /\ "data" \notin Changed(self, self')
       /\ frame'.pc \in {"done", "fault"}
          => outcome(frame') = render_partial_of(self', frame'.offset)]_vars

(* A render that evicted a column has ended on a table configured by       *)
(* three setters.                                                          *)
C13_Witness ==
    /\ ReturnedLines
    /\ self.priorities = <<1, 0>>
    /\ self.align = "Right"
    /\ self.surround
    /\ Len(self.data) = 2
    /\ frame.offset = 0
    /\ Len(frame.limits) = 1
    /\ Len(self.data[1]) = 2

(* The table holding only the rows from offset on, configured alike.       *)
FromOffset(t, offset) == [t EXCEPT !.data = SubSeq(t.data, offset + 1, Len(t.data))]

PaddingSlots(t, n) == IF t.surround THEN n + 1 ELSE IF n > 0 THEN n - 1 ELSE 0

(* From position pos on, the line holds the cells c.. of the row, each in  *)
(* a field as wide as its column with only blanks added, every field after *)
(* at least `lead` blanks, then at least `trail` blanks and nothing more.  *)
RECURSIVE GapsFrom(_, _, _, _, _, _, _)
GapsFrom(line, pos, row, limits, c, lead, trail) ==
    IF c > Len(limits)
    THEN /\ Len(line) - pos + 1 >= trail
         /\ IsBlank(SubSeq(line, pos, Len(line)))
    ELSE LET field == Len(row[c]) + limits[c] - Width(row[c]) IN
         \E g \in lead..(Len(line) - pos + 1) :
            /\ IsBlank(SubSeq(line, pos, pos + g - 1))
            /\ pos + g + field - 1 <= Len(line)
            /\ Strip(SubSeq(line, pos + g, pos + g + field - 1)) = row[c]
            /\ GapsFrom(line, pos + g + field, row, limits, c + 1, 1, trail)

(* The loop has ended and the rows have been formatted.                    *)
Formatted == ReturnedLines /\ frame.data # <<>>

(* C15: when the eviction loop ends, the surviving widths plus the padding *)
(* slots (surviving + 1 with surround, surviving - 1 without, never        *)
(* negative) are at most space; so in every line the gap between adjacent  *)
(* surviving columns, and with surround the gap before the first and after *)
(* the last, is at least one blank, and every cell is whole.               *)
C15_FitsWithPadding ==
    Formatted
    => /\ Sum(frame.limits) + PaddingSlots(self, Len(frame.limits)) <= self.space
       /\ \A r \in 1..Len(frame.data) :
            /\ Len(frame.data[r]) >= Len(frame.limits)
            /\ \A c \in 1..Len(frame.limits) : Width(frame.data[r][c]) <= frame.limits[c]
            /\ LET outer == IF self.surround /\ frame.limits # <<>> THEN 1 ELSE 0
               IN GapsFrom(frame.result.val[r], 1, frame.data[r], frame.limits,
                           1, outer, outer)

(* Two columns of a two-row table fit exactly, with one blank per slot.    *)
C15_Witness ==
    /\ Formatted
    /\ self.surround
    /\ self.space = 7
    /\ self.align = "Right"
    /\ self.data = << << <<"a">>, <<"W", "b">> >>, << <<"a">>, <<"a">> >> >>
    /\ frame.result.val = << <<" ", "a", " ", "W", "b", " ">>,
                             <<" ", "a", " ", " ", " ", "a", " ">> >>

(* C16: a table with no rows renders to the empty list, and a table whose  *)
(* rows all have no columns renders to one line of `space` blanks per row, *)
(* for every space, surround flag, alignment and priorities list.          *)
C16_EmptyTables ==
    (/\ Ended
     /\ frame.offset = 0
     /\ \A r \in 1..Len(self.data) : self.data[r] = <<>>)
    => /\ frame.pc = "done"
       /\ frame.result = Some([r \in 1..Len(self.data) |-> Blanks(self.space)])

====
